---- MODULE Spec2Model ----
(***************************************************************************)
(* A model of log_analyzer.py: the log-selection -> parse -> aggregate ->  *)
(* statistics pipeline of main, and its pure helpers.                      *)
(*                                                                         *)
(* Representation.                                                         *)
(*   - A Python str is a sequence of one-character strings, so that        *)
(*     strip, split and the regular expression are computed character by   *)
(*     character.                                                          *)
(*   - A Python float is an exact fixed-point number counted in ticks of   *)
(*     1/TicksPerSecond: the samples are whole milliseconds (two ticks),   *)
(*     which makes the half of a sum of two samples exact.  Binary         *)
(*     rounding error of floats is not modelled.                           *)
(*   - None is the empty tuple and a present value x is <<x>>.             *)
(*   - A dict is the sequence of its <<key, value>> items in insertion     *)
(*     order, which is the order Python iterates it in.                    *)
(***************************************************************************)
EXTENDS Integers, Sequences, FiniteSets, TLC

VARIABLES
    pc,            \* position of main, or of the function under check
    fs,            \* the file system main sees: folders, listing, reports
    cfg,           \* the merged configuration (load_config's result)
    log_file,      \* find_log_files' result
    stream,        \* the lines of the opened log file not yet read
    data,          \* parse_log: url -> durations, in insertion order
    all_time,      \* parse_log: sum of the durations
    count,         \* parse_log: lines read
    error_count,   \* parse_log: lines not accounted to a url
    parsed,        \* main: the tuple parse_log returned
    calc_called,   \* main: the call of calc_stat at line 327 was evaluated
    json_data,     \* main: what calc_stat returned
    report,        \* the report file create_report wrote (None: not written)
    exc,           \* the exception that left main (None: none)
    arg,           \* the arguments of a function checked on its own
    ret            \* its result

vars == <<pc, fs, cfg, log_file, stream, data, all_time, count, error_count,
          parsed, calc_called, json_data, report, exc, arg, ret>>

----------------------------------------------------------------------------
(* Python values *)

None == <<>>

Some(x) == <<x>>

TicksPerSecond == 2 * 1000

Sec(k) == k * TicksPerSecond

RECURSIVE SumSeq(_)
SumSeq(s) == IF s = <<>> THEN 0 ELSE Head(s) + SumSeq(Tail(s))

MaxOf(s) == CHOOSE m \in {s[i] : i \in DOMAIN s} : \A i \in DOMAIN s : s[i] <= m

Abs(x) == IF x < 0 THEN -x ELSE x

\* floor of n / d for d > 0 and any integer n
FloorDiv(n, d) == IF n >= 0 THEN n \div d ELSE -((-n + d - 1) \div d)

\* the integer nearest to n / d (d > 0), a tie going to the even one
RoundHalfEven(n, d) ==
    LET q == FloorDiv(n, d)
        r == n - q * d
    IN  IF 2 * r < d THEN q
        ELSE IF 2 * r > d THEN q + 1
        ELSE IF q % 2 = 0 THEN q ELSE q + 1

\* round(n / d, 3) of a quotient of ticks: the nearest whole millisecond
Round3(n, d) == 2 * RoundHalfEven(n, 2 * d)

RECURSIVE Gcd(_, _)
Gcd(a, b) == IF b = 0 THEN a ELSE Gcd(b, a % b)

\* round(100 * n / d, 3) of a ratio, in thousandths of a percent; the ratio is
\* reduced first, which keeps the product within TLC's integers
RoundPercent(n, d) ==
    LET g == Gcd(Abs(n), d)
    IN  RoundHalfEven((n \div g) * 100 * 1000, d \div g)

----------------------------------------------------------------------------
(* str *)

Whitespace == {" ", "\n", "\t"}

Digits == <<"0", "1", "2", "3", "4", "5", "6", "7", "8", "9">>

IsDigit(c) == \E i \in DOMAIN Digits : Digits[i] = c

DigitValue(c) == (CHOOSE i \in DOMAIN Digits : Digits[i] = c) - 1

RECURSIVE lstrip(_)
lstrip(s) ==
    IF s # <<>> /\ Head(s) \in Whitespace THEN lstrip(Tail(s)) ELSE s

RECURSIVE rstrip(_)
rstrip(s) ==
    IF s # <<>> /\ s[Len(s)] \in Whitespace
    THEN rstrip(SubSeq(s, 1, Len(s) - 1)) ELSE s

strip(s) == rstrip(lstrip(s))

\* s.split(sep) for a one-character sep: every separator ends a field, so two
\* separators in a row enclose an empty field, and "" splits to [""].
RECURSIVE split(_, _)
split(s, sep) ==
    LET at == {i \in DOMAIN s : s[i] = sep}
    IN  IF at = {} THEN <<s>>
        ELSE LET first == CHOOSE i \in at : \A j \in at : i <= j
             IN  <<SubSeq(s, 1, first - 1)>>
                   \o split(SubSeq(s, first + 1, Len(s)), sep)

RECURSIVE join(_, _)
join(sep, parts) ==
    IF parts = <<>> THEN <<>>
    ELSE IF Len(parts) = 1 THEN parts[1]
    ELSE parts[1] \o sep \o join(sep, Tail(parts))

\* the value of a string of digits
RECURSIVE DigitsValue(_)
DigitsValue(s) ==
    IF s = <<>> THEN 0
    ELSE 10 * DigitsValue(SubSeq(s, 1, Len(s) - 1)) + DigitValue(s[Len(s)])

AllDigits(s) == \A i \in DOMAIN s : IsDigit(s[i])

RECURSIVE Pow10(_)
Pow10(n) == IF n = 0 THEN 1 ELSE 10 * Pow10(n - 1)

\* float(v) for the literals [sign] digits [. digits] with at most three
\* fractional digits, surrounding whitespace ignored as float() does; None for
\* text float() raises ValueError on.  Exponents, inf, nan and underscores are
\* outside the alphabet of the lines considered.
float(v) ==
    LET t    == strip(v)
        neg  == t # <<>> /\ Head(t) = "-"
        sgn  == t # <<>> /\ Head(t) \in {"-", "+"}
        body == IF sgn THEN Tail(t) ELSE t
        dots == {i \in DOMAIN body : body[i] = "."}
        ip   == IF dots = {} THEN body
                ELSE SubSeq(body, 1, (CHOOSE i \in dots : TRUE) - 1)
        fp   == IF dots = {} THEN <<>>
                ELSE SubSeq(body, (CHOOSE i \in dots : TRUE) + 1, Len(body))
        ok   == /\ Cardinality(dots) <= 1
                /\ AllDigits(ip) /\ AllDigits(fp)
                /\ Len(ip) + Len(fp) >= 1
                /\ Len(fp) <= 3
        mag  == DigitsValue(ip) * TicksPerSecond
                  + DigitsValue(fp) * (TicksPerSecond \div Pow10(Len(fp)))
    IN  IF ok THEN Some(IF neg THEN -mag ELSE mag) ELSE None

check_float(v) == float(v)

----------------------------------------------------------------------------
(* parse_line *)

parse_line_index6(line) ==
    LET value_list == split(strip(line), " ")
    IN  IF Len(value_list) < 8 THEN <<None, None>>
        ELSE LET url == value_list[7]
                 duration == check_float(value_list[Len(value_list)])
             IN  IF duration # None THEN <<Some(url), duration>>
                 ELSE <<None, None>>

parse_line(line) ==
    LET value_list == split(strip(line), " ")
    IN  IF Len(value_list) < 9 THEN <<None, None>>
        ELSE LET url == value_list[8]
                 duration == check_float(value_list[Len(value_list)])
             IN  IF duration # None THEN <<Some(url), duration>>
                 ELSE <<None, None>>

----------------------------------------------------------------------------
(* sorted *)

\* sorted(items, key=..., reverse=...) where keys[i] is the key of items[i]:
\* Python's sort is stable, also under reverse=True, so items of equal key
\* keep the order they came in.
py_sorted(items, keys, reverse) ==
    LET n == Len(items)
        Before(j, i) ==
            \/ IF reverse THEN keys[j] > keys[i] ELSE keys[j] < keys[i]
            \/ keys[j] = keys[i] /\ j < i
        Place(i) == Cardinality({j \in 1..n : Before(j, i)}) + 1
    IN  [p \in 1..n |-> items[CHOOSE i \in 1..n : Place(i) = p]]

----------------------------------------------------------------------------
(* median *)

median_lower(lst) ==
    LET n == Len(lst)
        s == py_sorted(lst, lst, FALSE)
    IN  IF n < 1 THEN None
        ELSE IF n % 2 = 1 THEN Some(s[n \div 2 + 1])
        ELSE Some(s[n \div 2])

median(lst) ==
    LET n == Len(lst)
        s == py_sorted(lst, lst, FALSE)
    IN  IF n < 1 THEN None
        ELSE IF n % 2 = 1 THEN Some(s[n \div 2 + 1])
        ELSE Some((s[n \div 2] + s[n \div 2 + 1]) \div 2)

----------------------------------------------------------------------------
(* calc_stat *)

Return(v) == [kind |-> "return", value |-> v]

Raise(e) == [kind |-> "raise", exc |-> e]

json_dumps(d) == [json |-> d]

\* the body of calc_stat's loop for the item <<r, data[r]>>
UrlStat(item, total_count, total_time) ==
    LET r == item[1]
        durations == item[2]
        n == Len(durations)
        time_sum == Round3(SumSeq(durations), 1)
    IN  [url        |-> r,
         count      |-> n,
         count_perc |-> RoundPercent(n, total_count),
         time_avg   |-> Round3(time_sum, n),
         time_max   |-> Round3(MaxOf(durations), 1),
         time_med   |-> Round3(median(durations)[1], 1),
         time_perc  |-> RoundPercent(time_sum, total_time),
         time_sum   |-> time_sum]

\* the loop at lines 217-231: the record is appended before i is compared
\* with max_size
RECURSIVE calc_loop(_, _, _, _, _, _)
calc_loop(items, i, max_size, total_count, total_time, d) ==
    IF items = <<>> THEN d
    ELSE LET d1 == Append(d, UrlStat(Head(items), total_count, total_time))
         IN  IF i = max_size THEN d1
             ELSE calc_loop(Tail(items), i + 1, max_size, total_count, total_time, d1)

\* calc_stat(data, all_count, all_time, report_size), with total_count and
\* total_time for all_count and all_time; data[r] is never empty
calc_stat(items, total_count, total_time, report_size) ==
    IF items = None \/ Len(items) = 0 THEN Return(None)
    ELSE IF total_count = 0 \/ total_time = 0 THEN Raise("ZeroDivisionError")
    ELSE LET max_size == IF Len(items) > report_size
                         THEN report_size ELSE Len(items)
         IN  Return(Some(json_dumps(
                 calc_loop(items, 0, max_size, total_count, total_time, <<>>))))

\* line 198: dict(sorted(data.items(), key=lambda k: sum(k[1]), reverse=True))
rank_unsorted(items) == items

rank(items) ==
    py_sorted(items, [i \in DOMAIN items |-> SumSeq(items[i][2])], TRUE)

----------------------------------------------------------------------------
(* The state of main's pipeline while a function is checked on its own *)

PipelineIdle ==
    /\ fs = None /\ cfg = None /\ log_file = None /\ stream = <<>>
    /\ data = <<>> /\ all_time = 0 /\ count = 0 /\ error_count = 0
    /\ parsed = None /\ calc_called = FALSE /\ json_data = None
    /\ report = None /\ exc = None

pipeline == <<fs, cfg, log_file, stream, data, all_time, count, error_count,
              parsed, calc_called, json_data, report, exc>>

SeqsUpTo(S, n) == UNION {[1..k -> S] : k \in 0..n}

----------------------------------------------------------------------------
(* parse_line on its own: test_parse_line, test_parse_line_bad and lines   *)
(* built from up to MaxFields fields                                        *)

MaxFields == 10

Letters == <<"a", "b", "c", "d", "e", "f", "g", "h", "i", "j", "k", "l">>

UrlSamples == {<<"u">>, <<"/", "u">>, <<>>}

NumberSamples ==
    {<<"1">>, <<"0", ".", "5">>, <<"0", ".", "3", "9", "0">>, <<"-", "2">>,
     <<"1", ".">>, <<".", "5">>, <<".">>, <<"x">>, <<"1", ".", "x">>, <<>>}

LeadSamples == {<<>>, <<" ">>}

TrailSamples == {<<>>, <<"\n">>, <<" ">>, <<" ", "\n">>}

\* line1 of test_parse_line
TestLine1 ==
    <<"1", ".", "1", "9", "6", ".", "1", "1", "6", ".", "3", "2", " ", "-",
      " ", " ", "-", " ", "[", "2", "9", "/", "J", "u", "n", "/", "2", "0",
      "1", "7", ":", "0", "3", ":", "5", "0", ":", "2", "2", " ", "+", "0",
      "3", "0", "0", "]", " ", "\"", "G", "E", "T", " ", "/", "a", "p", "i",
      "/", "v", "2", "/", "b", "a", "n", "n", "e", "r", "/", "2", "5", "0",
      "1", "9", "3", "5", "4", " ", "H", "T", "T", "P", "/", "1", ".", "1",
      "\"", " ", "2", "0", "0", " ", "9", "2", "7", " ", "\"", "-", "\"",
      " ", "\"", "L", "y", "n", "x", "/", "2", ".", "8", ".", "8", "d", "e",
      "v", ".", "9", " ", "l", "i", "b", "w", "w", "w", "-", "F", "M", "/",
      "2", ".", "1", "4", " ", "S", "S", "L", "-", "M", "M", "/", "1", ".",
      "4", ".", "1", " ", "G", "N", "U", "T", "L", "S", "/", "2", ".", "1",
      "0", ".", "5", "\"", " ", "\"", "-", "\"", " ", "\"", "1", "4", "9",
      "8", "6", "9", "7", "4", "2", "2", "-", "2", "1", "9", "0", "0", "3",
      "4", "3", "9", "3", "-", "4", "7", "0", "8", "-", "9", "7", "5", "2",
      "7", "5", "9", "\"", " ", "\"", "d", "c", "7", "1", "6", "1", "b", "e",
      "3", "\"", " ", "0", ".", "3", "9", "0">>

\* line1 and line2 of test_parse_line_bad
TestBadLine1 ==
    <<"1", ".", "9", "9", ".", "1", "7", "4", ".", "1", "7", "6", " ", "3",
      "b", "8", "1", "f", "6", "3", "5", "2", "6", "f", "a", "8", " ", " ",
      "-", " ", "[", "2", "9", "/", "J", "u", "n", "/", "2", "0", "1", "7",
      ":", "0", "3", ":", "5", "0", ":", "2", "2", " ", "+", "0", "3", "0",
      "0", "]", " ">>

TestBadLine2 ==
    <<"1", ".", "9", "9", ".", "1", "7", "4", ".", "1", "7", "6", " ", "3",
      "b", "8", "1", "f", "6", "3", "5", "2", "6", "f", "a", "8", " ", " ",
      "-", " ", "[", "2", "9", "/", "J", "u", "n", "/", "2", "0", "1", "7",
      ":", "0", "3", ":", "5", "0", ":", "2", "2", " ", "+", "0", "3", "0",
      "0", "]", " ", "\"", "G", "E", "T", " ", "/", "a", "p", "i", "/", "1",
      "/", "p", "h", "o", "t", "o", "g", "e", "n", "i", "c", "_", "b", "a",
      "n", "n", "e", "r", "s", "/", "l", "i", "s", "t", "/", "?", "s", "e",
      "r", "v", "e", "r", "_", "n", "a", "m", "e", "=", "W", "I", "N", "7",
      "R", "B", "4", " ", "H", "T", "T", "P", "/", "1", ".", "1", "\"", " ",
      "2", "0", "0", " ", "1", "2", " ", "\"", "-", "\"", " ", "\"", "P",
      "y", "t", "h", "o", "n", "-", "u", "r", "l", "l", "i", "b", "/", "2",
      ".", "7", "\"", " ", "\"", "-", "\"", " ", "\"", "1", "4", "9", "8",
      "6", "9", "7", "4", "2", "2", "-", "3", "2", "9", "0", "0", "7", "9",
      "3", "-", "4", "7", "0", "8", "-", "9", "7", "5", "2", "7", "7", "0",
      "\"", " ", "\"", "-", "\"", " ", "0", ".", "1", "3", "3", " ", "v",
      "v", "v">>

BuiltLines ==
    {lead \o join(<<" ">>,
                  [i \in 1..nf |-> IF i = nf THEN num
                                   ELSE IF i = 8 THEN url
                                   ELSE <<Letters[i]>>]) \o trail :
        <<nf, url>> \in (1..MaxFields) \X UrlSamples,
        <<num, lead, trail>> \in NumberSamples \X LeadSamples \X TrailSamples}

LineInputs == BuiltLines \cup {TestLine1, TestBadLine1, TestBadLine2}

InitParseLine ==
    /\ pc = "call" /\ arg \in LineInputs /\ ret = None /\ PipelineIdle

CallParseLine ==
    /\ pc = "call"
    /\ ret' = parse_line(arg)
    /\ pc' = "returned"
    /\ UNCHANGED <<arg, pipeline>>

NextParseLine == CallParseLine

SpecParseLine == InitParseLine /\ [][NextParseLine]_vars

\* The fields of a line, read off the positions of its spaces.
Seps(s) == {i \in DOMAIN s : s[i] = " "}

NFields(s) == Cardinality(Seps(s)) + 1

SepAt(s, k) == CHOOSE i \in Seps(s) : Cardinality({j \in Seps(s) : j <= i}) = k

Field(s, k) ==
    LET lo == IF k = 1 THEN 0 ELSE SepAt(s, k - 1)
        hi == IF k = NFields(s) THEN Len(s) + 1 ELSE SepAt(s, k)
    IN  SubSeq(s, lo + 1, hi - 1)

\* The line without its leading and trailing whitespace.
Trimmed(s) ==
    LET ink == {i \in DOMAIN s : s[i] \notin Whitespace}
    IN  IF ink = {} THEN <<>>
        ELSE SubSeq(s, CHOOSE i \in ink : \A j \in ink : i <= j,
                       CHOOSE i \in ink : \A j \in ink : j <= i)

LineParserResult(s) ==
    IF NFields(s) >= 9 /\ float(Field(s, NFields(s))) # None
    THEN <<Some(Field(s, 8)), float(Field(s, NFields(s)))>>
    ELSE <<None, None>>

\* C6 as stated: parse_line returns (8th field, value of the last field)
\* exactly when splitting the line itself on single spaces yields at least 9
\* fields and the last one is a number, and (None, None) otherwise.
C6_Original == pc = "returned" => ret = LineParserResult(arg)

\* C6, amended: parse_line returns (8th field, value of the last field) exactly
\* when splitting the line, stripped of its leading and trailing whitespace,
\* on single spaces yields at least 9 fields and the last one is a number, and
\* (None, None) otherwise.
C6_ParseLine == pc = "returned" => ret = LineParserResult(Trimmed(arg))

C6_Witness ==
    /\ pc = "returned"
    /\ arg = TestLine1
    /\ ret = <<Some(Field(arg, 8)), Some(780)>>
    /\ Len(ret[1][1]) = 23

----------------------------------------------------------------------------
(* median on its own: every list of up to MaxLen samples of 1..MaxSample   *)
(* seconds, which holds the lists of test_median                           *)

MaxLen == 5

MaxSample == 5

MedianInputs == SeqsUpTo({Sec(k) : k \in 1..MaxSample}, MaxLen)

InitMedian ==
    /\ pc = "call" /\ arg \in MedianInputs /\ ret = None /\ PipelineIdle

\* sorted(lst) builds a new list: lst itself is left as it was
CallMedian ==
    /\ pc = "call"
    /\ ret' = median(arg)
    /\ arg' = arg
    /\ pc' = "returned"
    /\ UNCHANGED pipeline

NextMedian == CallMedian

SpecMedian == InitMedian /\ [][NextMedian]_vars

\* v is the element at index k (from 0) of the ascending sort of lst
IsOrderStat(lst, k, v) ==
    /\ \E i \in DOMAIN lst : lst[i] = v
    /\ Cardinality({i \in DOMAIN lst : lst[i] < v}) <= k
    /\ Cardinality({i \in DOMAIN lst : lst[i] <= v}) > k

\* C8: for a non-empty sequence of n samples median returns the element at
\* index n div 2 of the ascending sort when n is odd and the average of the
\* two central elements of the ascending sort when n is even, and leaves the
\* input sequence as it was.
C8_Median ==
    [][(pc = "call" /\ Len(arg) >= 1) =>
        /\ arg' = arg
        /\ ret' # None
        /\ LET n == Len(arg)
           IN  IF n % 2 = 1
               THEN IsOrderStat(arg, n \div 2, ret'[1])
               ELSE \E i, j \in DOMAIN arg :
                       /\ IsOrderStat(arg, n \div 2 - 1, arg[i])
                       /\ IsOrderStat(arg, n \div 2, arg[j])
                       /\ 2 * ret'[1] = arg[i] + arg[j]]_vars

\* [1,2,3,4] -> 2.5
C8_Witness ==
    /\ pc = "returned"
    /\ arg = <<Sec(1), Sec(2), Sec(3), Sec(4)>>
    /\ ret = Some(Sec(5) \div 2)

----------------------------------------------------------------------------
(* calc_stat on its own.  A Grouping of up to MaxUrls urls in any insertion *)
(* order, each with one of the sample lists (those of test_calc_stat among  *)
(* them), is given to calc_stat as it is, and as parse_log returns it.      *)

MaxUrls == 3

MaxReportSize == 3

UrlNames == {"url1", "url2", "url3", "url4"}

DurationLists ==
    {<<Sec(7), Sec(8), Sec(9)>>, <<Sec(3), Sec(4), Sec(5)>>,
     <<Sec(1), Sec(2), Sec(3)>>, <<Sec(6), Sec(6)>>, <<0>>}

Groupings ==
    {g \in SeqsUpTo(UrlNames \X DurationLists, MaxUrls) :
        \A i, j \in DOMAIN g : i # j => g[i][1] # g[j][1]}

RECURSIVE SumAll(_)
SumAll(g) == IF g = <<>> THEN 0 ELSE SumSeq(Head(g)[2]) + SumAll(Tail(g))

RECURSIVE CountAll(_)
CountAll(g) == IF g = <<>> THEN 0 ELSE Len(Head(g)[2]) + CountAll(Tail(g))

InitCalcStat ==
    /\ pc = "call"
    /\ \E g \in Groupings, size \in 1..MaxReportSize :
          arg = [data |-> g, all_count |-> CountAll(g), all_time |-> SumAll(g),
                 report_size |-> size]
    /\ ret = None
    /\ PipelineIdle

\* calc_stat(data, all_count, all_time, report_size), as test_calc_stat calls it
CallCalcStat ==
    /\ pc = "call"
    /\ ret' = calc_stat(arg.data, arg.all_count, arg.all_time, arg.report_size)
    /\ pc' = "direct"
    /\ UNCHANGED <<arg, pipeline>>

\* calc_stat on the Grouping as line 198 of parse_log returns it
CallCalcStatRanked ==
    /\ pc = "call"
    /\ ret' = calc_stat(rank(arg.data), arg.all_count, arg.all_time,
                        arg.report_size)
    /\ pc' = "ranked"
    /\ UNCHANGED <<arg, pipeline>>

NextCalcStat == CallCalcStat \/ CallCalcStatRanked

SpecCalcStat == InitCalcStat /\ [][NextCalcStat]_vars

Returned == pc \in {"direct", "ranked"} /\ ret.kind = "return" /\ ret.value # None

Records == ret.value[1].json

Min(a, b) == IF a < b THEN a ELSE b

TimeSumOf(url) ==
    SumSeq((CHOOSE i \in DOMAIN arg.data : arg.data[i][1] = url) [2])

NonIncreasing(d) ==
    \A i, j \in DOMAIN d : i < j => d[i].time_sum >= d[j].time_sum

\* C2: for a non-empty Grouping and reportSize >= 1 calc_stat returns exactly
\* min(reportSize, number of distinct urls) records, and when the Grouping has
\* more urls than reportSize they are reportSize urls of greatest timeSum.
\* Stated for the Grouping as parse_log hands it over, ranked.
C2_Truncation ==
    (pc = "ranked" /\ Returned) =>
        /\ Len(Records) = Min(arg.report_size, Len(arg.data))
        /\ \A i \in DOMAIN arg.data :
              \/ \E k \in DOMAIN Records : Records[k].url = arg.data[i][1]
              \/ \A k \in DOMAIN Records :
                    TimeSumOf(Records[k].url) >= TimeSumOf(arg.data[i][1])

\* C3 as stated: for every non-empty Grouping given to calc_stat, whatever the
\* order its urls were inserted in, the records are in non-increasing order of
\* time_sum.
C3_Original == Returned => NonIncreasing(Records)

\* C3, amended: for every non-empty Grouping that parse_log returns (line 198
\* ranks it by descending sum of durations), whatever the order its urls were
\* first met in, the records calc_stat returns are in non-increasing order of
\* time_sum; calc_stat itself keeps the order of the Grouping it is given.
C3_Ordered == (pc = "ranked" /\ Returned) => NonIncreasing(Records)

\* test_calc_stat's Grouping met in ascending order: url1 (avg 8.0), url2
\* (avg 4.0), url3
C3_Witness ==
    /\ pc = "ranked" /\ Returned
    /\ arg.data = << <<"url3", <<Sec(1), Sec(2), Sec(3)>> >>,
                     <<"url2", <<Sec(3), Sec(4), Sec(5)>> >>,
                     <<"url1", <<Sec(7), Sec(8), Sec(9)>> >> >>
    /\ arg.all_count = 9 /\ arg.all_time = Sec(42) /\ arg.report_size = 3
    /\ Len(Records) = 3
    /\ Records[1].url = "url1" /\ Records[1].time_avg = Sec(8)
    /\ Records[2].url = "url2" /\ Records[2].time_avg = Sec(4)
    /\ Records[3].url = "url3" /\ Records[3].time_avg = Sec(2)

----------------------------------------------------------------------------
(* find_log_files *)

IsLeap(y) == (y % 4 = 0 /\ y % 100 # 0) \/ y % 400 = 0

DaysIn(y, m) ==
    IF m = 2 THEN (IF IsLeap(y) THEN 29 ELSE 28)
    ELSE IF m \in {4, 6, 9, 11} THEN 30 ELSE 31

\* datetime.strptime(st, '%Y%m%d') accepts the eight digits st
IsDate(st) ==
    LET y == DigitsValue(SubSeq(st, 1, 4))
        m == DigitsValue(SubSeq(st, 5, 6))
        d == DigitsValue(SubSeq(st, 7, 8))
    IN  y >= 1 /\ m \in 1..12 /\ d >= 1 /\ d <= DaysIn(y, m)

\* re.search('log-(?P<dateandtime>\d{8})', extension): the leftmost match
parse_filename_extension(extension) ==
    LET hits == {i \in DOMAIN extension :
                    /\ i + 11 <= Len(extension)
                    /\ SubSeq(extension, i, i + 3) = <<"l", "o", "g", "-">>
                    /\ AllDigits(SubSeq(extension, i + 4, i + 11))}
    IN  IF hits = {} THEN None
        ELSE LET first == CHOOSE i \in hits : \A j \in hits : i <= j
                 st == SubSeq(extension, first + 4, first + 11)
             IN  IF IsDate(st)
                 THEN Some(<<SubSeq(st, 1, 4), SubSeq(st, 5, 6), SubSeq(st, 7, 8)>>)
                 ELSE None

EmptyDict == <<>>

\* lines 286-298: the rows of the entries that match, in the order of the scan
RECURSIVE scan(_, _, _)
scan(listing, log_folder, rep_folder) ==
    IF listing = <<>> THEN <<>>
    ELSE LET filename == Head(listing)
             fname == split(filename, ".")
             rest == scan(Tail(listing), log_folder, rep_folder)
         IN  IF Len(fname) > 1 /\ fname[1] = <<"n", "g", "i", "n", "x", "-", "a", "c", "c", "e", "s", "s", "-", "u", "i">>
             THEN LET date_parts == parse_filename_extension(fname[2])
                  IN  IF date_parts # None
                      THEN <<[date     |-> join(<<>>, date_parts[1]),
                              log_file |-> log_folder \o filename,
                              rep_file |-> rep_folder \o <<"r", "e", "p", "o", "r", "t", "-">>
                                             \o join(<<".">>, date_parts[1])
                                             \o <<".", "h", "t", "m", "l">>,
                              gz       |-> Len(fname) = 3 /\ fname[3] = <<"g", "z">>]>>
                             \o rest
                      ELSE rest
             ELSE rest

find_log_files_ascending(files, log_folder, rep_folder) ==
    IF ~files.log_is_dir THEN None
    ELSE IF ~files.rep_is_dir THEN None
    ELSE LET rows == scan(files.listing, log_folder, rep_folder)
             result == py_sorted(rows,
                                 [i \in DOMAIN rows |-> DigitsValue(rows[i].date)],
                                 FALSE)
         IN  IF Len(result) > 0 /\ result[1].rep_file \notin files.rep_files
             THEN Some(result[1])
             ELSE Some(EmptyDict)

\* find_log_files(log_folder, rep_folder) in the file system files; the dates
\* are strings of eight digits, which compare as their values do
find_log_files(files, log_folder, rep_folder) ==
    IF ~files.log_is_dir THEN None
    ELSE IF ~files.rep_is_dir THEN None
    ELSE LET rows == scan(files.listing, log_folder, rep_folder)
             result == py_sorted(rows,
                                 [i \in DOMAIN rows |-> DigitsValue(rows[i].date)],
                                 TRUE)
         IN  IF Len(result) > 0 /\ result[1].rep_file \notin files.rep_files
             THEN Some(result[1])
             ELSE Some(EmptyDict)

----------------------------------------------------------------------------
(* find_log_files on its own: listings of up to MaxEntries distinct names  *)

MaxEntries == 3

UiLog(date, suffix) == 
    <<"n", "g", "i", "n", "x", "-", "a", "c", "c", "e", "s", "s", "-", "u", "i", ".", "l", "o", "g", "-">>
      \o date \o suffix

Jun29 == <<"2", "0", "1", "7", "0", "6", "2", "9">>

Jun30 == <<"2", "0", "1", "7", "0", "6", "3", "0">>

Jun31 == <<"2", "0", "1", "7", "0", "6", "3", "1">>

FileSamples ==
    {UiLog(Jun30, <<>>), UiLog(Jun30, <<".", "g", "z">>), UiLog(Jun29, <<".", "g", "z">>),
     UiLog(Jun29, <<".", "b", "z", "2">>), UiLog(Jun31, <<>>),
     
       <<"n", "g", "i", "n", "x", "-", "o", "t", "h", "e", "r", ".", "l", "o", "g", "-">>
        \o Jun30,
     <<"n", "g", "i", "n", "x", "-", "a", "c", "c", "e", "s", "s", "-", "u", "i">>}

LogFolder == <<".", "/", "l", "o", "g", "/">>

RepFolder == <<".", "/", "r", "e", "p", "o", "r", "t", "s", "/">>

ReportPath(date) ==
    RepFolder \o <<"r", "e", "p", "o", "r", "t", "-">>
      \o join(<<".">>, <<SubSeq(date, 1, 4), SubSeq(date, 5, 6), SubSeq(date, 7, 8)>>)
      \o <<".", "h", "t", "m", "l">>

Listings(n) ==
    {l \in SeqsUpTo(FileSamples, n) : \A i, j \in DOMAIN l : i # j => l[i] # l[j]}

InitFind ==
    /\ pc = "call"
    /\ \E l \in Listings(MaxEntries), done \in SUBSET {ReportPath(Jun29)},
          dirs \in {<<TRUE, TRUE>>, <<TRUE, FALSE>>, <<FALSE, TRUE>>} :
          arg = [log_is_dir |-> dirs[1], rep_is_dir |-> dirs[2],
                 listing |-> l, rep_files |-> done]
    /\ ret = None
    /\ PipelineIdle

CallFind ==
    /\ pc = "call"
    /\ ret' = find_log_files(arg, LogFolder, RepFolder)
    /\ pc' = "returned"
    /\ UNCHANGED <<arg, pipeline>>

NextFind == CallFind

SpecFind == InitFind /\ [][NextFind]_vars

\* The entry matches the log-file pattern: nginx-access-ui, a dot, and a part
\* that holds log- and the eight digits of a date.
Matches(filename) ==
    LET fname == split(filename, ".")
    IN  /\ Len(fname) > 1
        /\ fname[1] = <<"n", "g", "i", "n", "x", "-", "a", "c", "c", "e", "s", "s", "-", "u", "i">>
        /\ parse_filename_extension(fname[2]) # None

DateOf(filename) ==
    DigitsValue(join(<<>>, parse_filename_extension(split(filename, ".")[2])[1]))

Selected == pc = "returned" /\ ret # None /\ ret[1] # EmptyDict

\* the place in the scan of the entry find_log_files selected
IsSelected(i) == ret[1].log_file = LogFolder \o arg.listing[i]

\* C7 as stated: the selected entry carries the greatest date among the
\* matching entries, and of several entries of that date it is the one seen
\* last in the scan.
C7_Original ==
    Selected =>
        \E i \in DOMAIN arg.listing :
            /\ IsSelected(i) /\ Matches(arg.listing[i])
            /\ \A j \in DOMAIN arg.listing :
                  Matches(arg.listing[j]) =>
                      /\ DateOf(arg.listing[j]) <= DateOf(arg.listing[i])
                      /\ (j > i => DateOf(arg.listing[j]) < DateOf(arg.listing[i]))

\* C7, amended: the selected entry carries the greatest date among the
\* matching entries, and of several entries of that date it is the one seen
\* first in the scan (the sort is stable and result[0] is taken).
C7_FirstSeen ==
    Selected =>
        \E i \in DOMAIN arg.listing :
            /\ IsSelected(i) /\ Matches(arg.listing[i])
            /\ \A j \in DOMAIN arg.listing :
                  Matches(arg.listing[j]) =>
                      /\ DateOf(arg.listing[j]) <= DateOf(arg.listing[i])
                      /\ (j < i => DateOf(arg.listing[j]) < DateOf(arg.listing[i]))

\* a plain and a .gz file of the greatest date, the plain one seen first
C7_Witness ==
    /\ Selected
    /\ arg.listing = <<UiLog(Jun29, <<".", "g", "z">>), UiLog(Jun30, <<>>), UiLog(Jun30, <<".", "g", "z">>)>>
    /\ ret[1].log_file = LogFolder \o UiLog(Jun30, <<>>)
    /\ ret[1].gz = FALSE

----------------------------------------------------------------------------
(* parse_log *)

HasKey(d, k) == \E i \in DOMAIN d : d[i][1] = k

\* data[url].append(req_time), or data[url] = [req_time] for a new url
Accumulate(d, url, req_time) ==
    IF HasKey(d, url)
    THEN [i \in DOMAIN d |->
             IF d[i][1] = url THEN <<url, Append(d[i][2], req_time)>> ELSE d[i]]
    ELSE Append(d, <<url, <<req_time>>>>)

\* "if url:" holds for a str that is not empty
Truthy(url) == url # None /\ url[1] # <<>>

account_first_only(acc, line) ==
    LET r == parse_line(line)
    IN  IF Truthy(r[1])
        THEN [data        |-> Accumulate(acc.data, r[1][1], r[2][1]),
              all_time    |-> IF HasKey(acc.data, r[1][1]) THEN acc.all_time
                              ELSE acc.all_time + r[2][1],
              count       |-> acc.count + 1,
              error_count |-> acc.error_count]
        ELSE [acc EXCEPT !.count = @ + 1, !.error_count = @ + 1]

\* the body of the loop of parse_log, lines 182-191, on the locals acc
account(acc, line) ==
    LET r == parse_line(line)
    IN  IF Truthy(r[1])
        THEN [data        |-> Accumulate(acc.data, r[1][1], r[2][1]),
              all_time    |-> acc.all_time + r[2][1],
              count       |-> acc.count + 1,
              error_count |-> acc.error_count]
        ELSE [acc EXCEPT !.count = @ + 1, !.error_count = @ + 1]

----------------------------------------------------------------------------
(* create_report and main *)

\* create_report(data, rep_file): the file written, None when nothing is
\* written.  The json text is never empty; reading the template may fail.
create_report(json, rep_file, template_ok) ==
    IF json # None /\ template_ok
    THEN Some([path |-> rep_file, body |-> json[1]])
    ELSE None

\* line 201: def calc_stat(data, all_count, all_time, report_size)
calc_stat_params == <<"data", "all_count", "all_time", "report_size">>

\* line 327: calc_stat(data, all_time, cfg['REPORT_SIZE'])
main_call_args(result, config) == <<result[1], result[2], config.REPORT_SIZE>>

exceeded_as_fraction(errors, lines, limit) == errors * 10 > limit * lines

\* lines 320-323: (error_count / count) * 100 > cfg['ERROR_PERCENT'], with
\* the limit in tenths of a percent
exceeded(errors, lines, limit) == errors * 100 * 10 > limit * lines

----------------------------------------------------------------------------
(* main.  Its environment: the file system, the configuration load_config  *)
(* merges, and the lines of the selected log file.                          *)

MaxLines == 3

LOG_DIR == <<".", "/", "l", "o", "g">>

REPORT_DIR == <<".", "/", "r", "e", "p", "o", "r", "t", "s">>

\* REPORT_SIZE >= 1 and 0 <= ERROR_PERCENT < 100 (merge_config), the defaults
\* 1000 and 32.5 among them; ERROR_PERCENT is in tenths of a percent
Configs ==
    [REPORT_SIZE : {1, 1000}, ERROR_PERCENT : {0, 325, 500},
     LOG_DIR : {LOG_DIR}, REPORT_DIR : {REPORT_DIR}]

FileSystem(log_ok, rep_ok, l, done) ==
    [log_is_dir |-> log_ok, rep_is_dir |-> rep_ok, listing |-> l, rep_files |-> done]

FileSystems ==
    {FileSystem(TRUE, TRUE, l, done) :
        l \in {<<>>, <<UiLog(Jun30, <<>>)>>,
               <<UiLog(Jun30, <<".", "g", "z">>), UiLog(Jun29, <<>>)>>},
        done \in SUBSET {ReportPath(Jun30)}}
    \cup {FileSystem(FALSE, TRUE, <<>>, {}), FileSystem(TRUE, FALSE, <<>>, {})}

LineSamples ==
    {<<"a", " ", "b", " ", "c", " ", "d", " ", "e", " ", "f", " ", "g", " ", "u", " ", "1", "\n">>,
     <<"a", " ", "b", " ", "c", " ", "d", " ", "e", " ", "f", " ", "g", " ", "v", " ", "2", "\n">>,
     <<"a", " ", "b", " ", "c", "\n">>,
     
     <<"a", " ", "b", " ", "c", " ", "d", " ", "e", " ", "f", " ", "g", " ", "u", " ", "x", "\n">>,
     
     <<"a", " ", "b", " ", "c", " ", "d", " ", "e", " ", "f", " ", "g", " ",
       " ", "h", " ", "3", "\n">>}

Init ==
    /\ pc = "load_config"
    /\ fs \in FileSystems
    /\ cfg = None /\ log_file = None /\ stream = <<>>
    /\ data = <<>> /\ all_time = 0 /\ count = 0 /\ error_count = 0
    /\ parsed = None /\ calc_called = FALSE /\ json_data = None
    /\ report = None /\ exc = None
    /\ arg = None /\ ret = None

\* lines 307-309: load_config gives None, or the merged configuration
LoadConfig ==
    /\ pc = "load_config"
    /\ \/ /\ cfg' = None
          /\ pc' = "done"
       \/ /\ \E c \in Configs : cfg' = Some(c)
          /\ pc' = "find_log_files"
    /\ UNCHANGED <<fs, log_file, stream, data, all_time, count, error_count,
                   parsed, calc_called, json_data, report, exc, arg, ret>>

\* lines 314-318 and 329-330
FindLogFiles ==
    /\ pc = "find_log_files"
    /\ log_file' = find_log_files(fs, cfg[1].LOG_DIR \o <<"/">>,
                                  cfg[1].REPORT_DIR \o <<"/">>)
    /\ pc' = IF log_file' # None /\ log_file'[1] # EmptyDict
             THEN "parse_log" ELSE "done"
    /\ UNCHANGED <<fs, cfg, stream, data, all_time, count, error_count,
                   parsed, calc_called, json_data, report, exc, arg, ret>>

\* lines 175-180: the locals, and open or gzip.open, which may raise
ParseLogOpen ==
    /\ pc = "parse_log"
    /\ data' = <<>> /\ all_time' = 0 /\ count' = 0 /\ error_count' = 0
    /\ \/ /\ \E lines \in SeqsUpTo(LineSamples, MaxLines) : stream' = lines
          /\ pc' = "parse_log_loop"
          /\ UNCHANGED parsed
       \/ /\ parsed' = Some(<<None, None, None, None>>)
          /\ pc' = "error_percent"
          /\ UNCHANGED stream
    /\ UNCHANGED <<fs, cfg, log_file, calc_called, json_data, report, exc,
                   arg, ret>>

\* lines 181-191: one line of the stream
ParseLogLine ==
    /\ pc = "parse_log_loop"
    /\ stream # <<>>
    /\ LET acc == account([data |-> data, all_time |-> all_time,
                           count |-> count, error_count |-> error_count],
                          Head(stream))
       IN  /\ data' = acc.data
           /\ all_time' = acc.all_time
           /\ count' = acc.count
           /\ error_count' = acc.error_count
    /\ stream' = Tail(stream)
    /\ UNCHANGED <<pc, fs, cfg, log_file, parsed, calc_called, json_data,
                   report, exc, arg, ret>>

\* lines 195-197: reading or decompressing raises, at any line or at the end
ParseLogFail ==
    /\ pc = "parse_log_loop"
    /\ parsed' = Some(<<None, None, None, None>>)
    /\ pc' = "error_percent"
    /\ UNCHANGED <<fs, cfg, log_file, stream, data, all_time, count,
                   error_count, calc_called, json_data, report, exc, arg, ret>>

\* line 198
ParseLogReturn ==
    /\ pc = "parse_log_loop"
    /\ stream = <<>>
    /\ parsed' = Some(<<Some(rank(data)), Some(all_time), Some(count),
                        Some(error_count)>>)
    /\ pc' = "error_percent"
    /\ UNCHANGED <<fs, cfg, log_file, stream, data, all_time, count,
                   error_count, calc_called, json_data, report, exc, arg, ret>>

\* lines 320-326: error_count / count raises TypeError on None and
\* ZeroDivisionError on a count of 0, and nothing in main catches either
MainGate ==
    /\ pc = "error_percent"
    /\ LET n == parsed[1][3]
           errors == parsed[1][4]
       IN  IF n = None THEN exc' = Some("TypeError") /\ pc' = "raised"
           ELSE IF n[1] = 0 THEN exc' = Some("ZeroDivisionError") /\ pc' = "raised"
           ELSE IF exceeded(errors[1], n[1], cfg[1].ERROR_PERCENT)
                THEN exc' = exc /\ pc' = "done"
                ELSE exc' = exc /\ pc' = "calc_stat"
    /\ UNCHANGED <<fs, cfg, log_file, stream, data, all_time, count,
                   error_count, parsed, calc_called, json_data, report, arg, ret>>

\* lines 327-328: the call of calc_stat binds its arguments to the parameters
\* and raises TypeError when one is missing; else create_report follows
MainReport ==
    /\ pc = "calc_stat"
    /\ calc_called' = TRUE
    /\ LET args == main_call_args(parsed[1], cfg[1])
       IN  IF Len(args) # Len(calc_stat_params)
           THEN /\ exc' = Some("TypeError") /\ pc' = "raised"
                /\ UNCHANGED <<json_data, report>>
           ELSE LET r == calc_stat(args[1][1], args[2][1], args[3][1], args[4])
                IN  IF r.kind = "raise"
                    THEN /\ exc' = Some(r.exc) /\ pc' = "raised"
                         /\ UNCHANGED <<json_data, report>>
                    ELSE /\ json_data' = r.value
                         /\ \E template_ok \in BOOLEAN :
                               report' = create_report(r.value, log_file[1].rep_file,
                                                       template_ok)
                         /\ exc' = exc /\ pc' = "done"
    /\ UNCHANGED <<fs, cfg, log_file, stream, data, all_time, count,
                   error_count, parsed, arg, ret>>

Next ==
    \/ LoadConfig
    \/ FindLogFiles
    \/ ParseLogOpen
    \/ ParseLogLine
    \/ ParseLogFail
    \/ ParseLogReturn
    \/ MainGate
    \/ MainReport

Spec == Init /\ [][Next]_vars

----------------------------------------------------------------------------
(* Properties of main *)

Ended == pc \in {"done", "raised"}

FileSelected == log_file # None /\ log_file[1] # EmptyDict

\* parse_log read the whole stream and returned its four results
StreamRead == parsed # None /\ parsed[1][3] # None

LineCount == parsed[1][3][1]

ErrorCount == parsed[1][4][1]

\* 100 * errorCount / lineCount > ERROR_PERCENT, the limit in tenths of a percent
OverLimit ==
    /\ StreamRead /\ LineCount > 0
    /\ 100 * ErrorCount * 10 > cfg[1].ERROR_PERCENT * LineCount

\* C1: when main selected a log file, the whole stream was read without an I/O
\* error, at least one line parsed and the error percentage does not exceed
\* ERROR_PERCENT, the run ends with calc_stat called successfully and its
\* result handed to create_report.
C1_ReportHandedOver ==
    (Ended /\ FileSelected /\ StreamRead /\ parsed[1][1][1] # <<>> /\ ~OverLimit)
        => (calc_called /\ exc = None /\ json_data # None)

\* C4: in a run where 100 * errorCount / lineCount is greater than
\* ERROR_PERCENT the run stops at the gate: the call of calc_stat is never
\* reached, no StatsReport is produced and no report file is written.
C4_Gate ==
    OverLimit =>
        /\ pc \in {"error_percent", "done"}
        /\ ~calc_called /\ json_data = None /\ report = None

\* a run that ended at the gate although some lines were accounted
C4_Witness ==
    /\ OverLimit /\ pc = "done" /\ exc = None
    /\ parsed[1][1][1] # <<>>
    /\ ErrorCount < LineCount
    /\ cfg[1].ERROR_PERCENT = 325

\* C5: every run of main returns normally, never with an exception leaving
\* main, and writes no report when a failure occurred (an I/O error while
\* streaming, a log file of zero lines, an empty Grouping).
C5_ReturnsNormally ==
    /\ pc # "raised" /\ exc = None
    /\ (parsed # None /\ (~StreamRead \/ LineCount = 0 \/ parsed[1][1][1] = <<>>))
          => report = None

\* C9: for a line parse_log consumes, if parse_line succeeds (a url and a
\* duration) the duration is appended to the url's sequence and added to the
\* total, lineCount grows by one and errorCount is unchanged; if parse_line
\* fails, errorCount and lineCount grow by one and the Grouping and the total
\* are unchanged.
C9_Accounting ==
    [][(pc = "parse_log_loop" /\ stream # <<>> /\ stream' = Tail(stream)) =>
        LET r == parse_line(Head(stream))
        IN  IF r[1] # None
            THEN /\ data' = Accumulate(data, r[1][1], r[2][1])
                 /\ all_time' = all_time + r[2][1]
                 /\ count' = count + 1
                 /\ error_count' = error_count
            ELSE /\ data' = data
                 /\ all_time' = all_time
                 /\ count' = count + 1
                 /\ error_count' = error_count + 1]_vars

\* C10: after any prefix of the stream, and in the result parse_log returns,
\* errorCount <= lineCount and the total duration is the sum of the durations
\* the Grouping holds.
C10_Totals ==
    /\ error_count <= count
    /\ all_time = SumAll(data)
    /\ (parsed # None /\ StreamRead) =>
          /\ ErrorCount <= LineCount
          /\ parsed[1][2][1] = SumAll(parsed[1][1][1])

\* a result with an error line and a url met twice
C10_Witness ==
    /\ parsed # None /\ StreamRead
    /\ LineCount = 3 /\ ErrorCount = 1
    /\ \E i \in DOMAIN parsed[1][1][1] : Len(parsed[1][1][1][i][2]) = 2
    /\ parsed[1][2][1] = Sec(2)

====
